---- MODULE Spec2Model ----
(***************************************************************************)
(* Model of generator/generate_dto.go: GenerateDTOFromProtoGo.Generate,    *)
(* the post-order walk genDTORecursive, the two binding synthesizers       *)
(* genBindingFromPB / genBindingToPB and the field classifier              *)
(* parseFieldType.                                                         *)
(*                                                                         *)
(* Go strings are modelled as sequences of tokens: the punctuation the     *)
(* classifier looks at ("[", "]", "*", "map") and the words in between,    *)
(* so that strings.Contains / Split / TrimPrefix / HasSuffix are computed  *)
(* on the text and not assumed.                                            *)
(***************************************************************************)
EXTENDS Naturals, Integers, Sequences, FiniteSets, TLC

VARIABLES
    protoGoFile,         \* the file at g.protoGoFileFullPath, as the run finds it
    pc,                  \* position inside Generate
    targetPBStructName,  \* g.targetPBStructName
    err,                 \* the error Generate returns ("nil" when none)
    pbGoFile,            \* pbGoFile.Structures, as parsed
    header,              \* g.srcFile carries the package comment
    code,                \* g.code: the items appended so far, in order
    pbStructManifest,    \* name -> structState
    rootIdx,             \* index of the root loop of Generate (line 131)
    stack,               \* call stack of genDTORecursive, top is last
    dtoFile              \* the file at g.dtoFileFullPath: written or not, content

vars == <<protoGoFile, pc, targetPBStructName, err, pbGoFile, header, code,
          pbStructManifest, rootIdx, stack, dtoFile>>

---------------------------------------------------------------------------
\* Bounds of the model.

\* structs in a parsed file
MaxStructs == 3
\* struct-typed fields in a whole file of the reference-graph family
MaxEdges == 3
\* fields of the struct of the field-shape family
MaxFields == 2

\* Depth at which the model stops following a recursion that has already
\* repeated a struct name (an acyclic walk nests at most MaxStructs deep).
MaxDepth == MaxStructs + 1

---------------------------------------------------------------------------
\* strings package, on token sequences.

Contains(s, sub) ==
    \E i \in 1..(Len(s) + 1 - Len(sub)) : SubSeq(s, i, i + Len(sub) - 1) = sub

HasSuffix(s, suffix) ==
    /\ Len(s) >= Len(suffix)
    /\ SubSeq(s, Len(s) - Len(suffix) + 1, Len(s)) = suffix

TrimPrefix(s, prefix) ==
    IF Len(s) >= Len(prefix) /\ SubSeq(s, 1, Len(prefix)) = prefix
    THEN SubSeq(s, Len(prefix) + 1, Len(s))
    ELSE s

RECURSIVE Split(_, _)
Split(s, sep) ==
    IF \A i \in 1..Len(s) : s[i] # sep
    THEN <<s>>
    ELSE LET i == CHOOSE i \in 1..Len(s) :
                      s[i] = sep /\ \A j \in 1..(i - 1) : s[j] # sep
         IN  <<SubSeq(s, 1, i - 1)>> \o Split(SubSeq(s, i + 1, Len(s)), sep)

RECURSIVE Trim(_, _)
Trim(s, cut) ==
    IF s # <<>> /\ s[1] = cut THEN Trim(Tail(s), cut)
    ELSE IF s # <<>> /\ s[Len(s)] = cut THEN Trim(SubSeq(s, 1, Len(s) - 1), cut)
    ELSE s

---------------------------------------------------------------------------
\* The field classifier.

fieldIsAMap(typeName) == Contains(typeName, <<"map", "[">>)

\* Slip: the brackets of the slice prefix the other way round.
fieldIsASliceSwapped(typeName) == Contains(typeName, <<"]", "[">>)

fieldIsASlice(typeName) == Contains(typeName, <<"[", "]">>)

\* Position of the first bracket of s at or after position k, 0 if none.
RECURSIVE NextBracket(_, _)
NextBracket(s, k) ==
    IF k > Len(s) THEN 0
    ELSE IF s[k] \in {"[", "]"} THEN k
    ELSE NextBracket(s, k + 1)

\* Leftmost match of \[([^\[\]]*)\] in s at or after position i (the regexp
\* of line 383); none is found only in a type with no bracket pair, which
\* the map branch of parseFieldType never passes.
RECURSIVE FirstMatch(_, _)
FirstMatch(s, i) ==
    IF i > Len(s) THEN <<>>
    ELSE IF /\ s[i] = "["
            /\ NextBracket(s, i + 1) # 0
            /\ s[NextBracket(s, i + 1)] = "]"
    THEN SubSeq(s, i, NextBracket(s, i + 1))
    ELSE FirstMatch(s, i + 1)

getBetweenBrackets(s) == Trim(Trim(FirstMatch(s, 1), "["), "]")

parseFieldType(typeName) ==
    IF fieldIsASlice(typeName)
    THEN [nameNoStar |-> TrimPrefix(Split(typeName, "]")[2], <<"*">>),
          isSlice |-> TRUE, isMap |-> FALSE, mapKeyType |-> <<>>]
    ELSE IF fieldIsAMap(typeName)
    THEN [nameNoStar |-> TrimPrefix(Split(typeName, "]")[2], <<"*">>),
          isSlice |-> FALSE, isMap |-> TRUE,
          mapKeyType |-> getBetweenBrackets(typeName)]
    ELSE [nameNoStar |-> TrimPrefix(typeName, <<"*">>),
          isSlice |-> FALSE, isMap |-> FALSE, mapKeyType |-> <<>>]

\* Slip: "state" left out of the pb native fields.
pbNativeFieldsShort == {"sizeCache", "unknownFields"}

\* pbNativeFields: the fields skipped during dto generation
pbNativeFields == {"state", "sizeCache", "unknownFields"}

---------------------------------------------------------------------------
\* What the parser can hand to Generate: pbGoFile.Structures, a sequence of
\* parser.Struct [Name, Vars], each Var a [Name, Type].  Struct names are
\* distinct, as the declarations of one Go package are.

Letters == <<"A", "B", "C", "D", "E">>

\* ARequest, B, CResponse, RequestD, ERequest: some names carry a root
\* suffix, some none, one carries the word at the wrong end.
NameAt(i) ==
    CASE i % 4 = 1 -> <<Letters[i], "Request">>
      [] i % 4 = 2 -> <<Letters[i]>>
      [] i % 4 = 3 -> <<Letters[i], "Response">>
      [] OTHER     -> <<"Request", Letters[i]>>

PtrTo(name)   == <<"*">> \o name
SliceOf(name) == <<"[", "]", "*">> \o name
MapOf(name)   == <<"map", "[", "string", "]", "*">> \o name

RefFieldNames == <<"RefA", "RefB", "RefC", "RefD", "RefE">>

\* Family 1, reference graphs: up to MaxStructs structs and up to MaxEdges
\* struct-typed fields among them (self references and cycles included);
\* the field of struct i that refers to struct j is a pointer, a slice or a
\* map of pointers.  The structs are named NameAt(1), NameAt(2), ... or
\* NameAt(2), NameAt(3), ..., so that the first struct of a file is a
\* Request in one case and not in the other.
RefType(i, j) ==
    CASE (i + j) % 3 = 0 -> PtrTo(NameAt(j))
      [] (i + j) % 3 = 1 -> SliceOf(NameAt(j))
      [] OTHER           -> MapOf(NameAt(j))

RECURSIVE RefVars(_, _, _, _, _)
RefVars(i, j, n, E, off) ==
    IF j > n THEN <<>>
    ELSE (IF <<i, j>> \in E
          THEN <<[Name |-> RefFieldNames[j + off], Type |-> RefType(i + off, j + off)]>>
          ELSE <<>>) \o RefVars(i, j + 1, n, E, off)

GraphSchemas ==
    UNION {
        { [i \in 1..n |-> [Name |-> NameAt(i + off), Vars |-> RefVars(i, 1, n, E, off)]] :
            E \in {E \in SUBSET ((1..n) \X (1..n)) : Cardinality(E) <= MaxEdges} }
        : <<n, off>> \in (0..MaxStructs) \X {0, 1} }

\* Family 2, field shapes: ARequest with up to MaxFields fields of every
\* shape the classifier distinguishes (scalars, collections of scalars,
\* struct pointer, slice and map of struct, a nested collection, and the pb
\* native fields, also typed with a struct), followed by the struct B they
\* refer to.
ShapeFieldNames == <<"First", "Second", "Third", "Fourth">>

ShapeTypes ==
    { <<"string">>, <<"[", "]", "string">>,
      PtrTo(NameAt(2)), SliceOf(NameAt(2)), MapOf(NameAt(2)),
      <<"[", "]", "map", "[", "string", "]", "*">> \o NameAt(2) }

NativeVars ==
    { [Name |-> "state", Type |-> PtrTo(NameAt(2))],
      [Name |-> "state", Type |-> PtrTo(NameAt(1))],
      [Name |-> "sizeCache", Type |-> <<"int32">>],
      [Name |-> "unknownFields", Type |-> SliceOf(NameAt(2))] }

VarMenu(k) == {[Name |-> ShapeFieldNames[k], Type |-> t] : t \in ShapeTypes} \cup NativeVars

ShapeVars ==
    UNION {
        { vs \in [1..m -> UNION {VarMenu(k) : k \in 1..m}] :
            /\ \A k \in 1..m : vs[k] \in VarMenu(k)
            /\ \A k1, k2 \in 1..m : vs[k1].Name = vs[k2].Name => k1 = k2 }
        : m \in 0..MaxFields }

ShapeSchemas ==
    { << [Name |-> NameAt(1), Vars |-> vs],
         [Name |-> NameAt(2), Vars |-> <<[Name |-> "Label", Type |-> <<"string">>]>>] >>
        : vs \in ShapeVars }

Schemas == GraphSchemas \cup ShapeSchemas

\* The values of the -x flag: none, the name of a struct without a root
\* suffix, a name no struct has.
Targets == {<<>>, NameAt(2), <<"Missing">>}

---------------------------------------------------------------------------
\* The generated code.  g.code is a sequence of items: a struct declaration
\* [kind "struct"] or a function [kind "func"] whose body is a sequence of
\* statements:
\*   [op "guard"]   if <src> == nil { return nil }
\*   [op "make"]    <var> := make(map[<key>]*<pkg>.<elem>, len(<src>.<field>))
\*                  <var> := make([]*<pkg>.<elem>, 0, len(<src>.<field>))
\*   [op "range"]   for k, v := range <src>.<field> { <var>[k] = <fn>(v) }
\*                  for _, v := range <src>.<field> { <var> = append(<var>, <fn>(v)) }
\*   [op "return"]  return &<pkg>.<type>{<name>: <value>, ...}
\* and a value is <src>.<field>, a local variable, or <fn>(<src>.<field>).

StructItem(name, dtoFields) == [kind |-> "struct", name |-> name, fields |-> dtoFields]

FuncItem(name, param, body) == [kind |-> "func", name |-> name, param |-> param, body |-> body]

GuardStmt(src) == [op |-> "guard", src |-> src]

MakeStmt(var, coll, key, pkg, elem, src, field) ==
    [op |-> "make", var |-> var, coll |-> coll, key |-> key, pkg |-> pkg,
     elem |-> elem, src |-> src, field |-> field]

RangeStmt(var, coll, src, field, fn) ==
    [op |-> "range", var |-> var, coll |-> coll, src |-> src, field |-> field, fn |-> fn]

ReturnStmt(pkg, type, values) ==
    [op |-> "return", pkg |-> pkg, type |-> type, values |-> values]

FieldValue(src, field) == [e |-> "field", src |-> src, field |-> field, fn |-> <<>>, var |-> ""]
VarValue(var) == [e |-> "var", src |-> "", field |-> "", fn |-> <<>>, var |-> var]
CallValue(fn, src, field) == [e |-> "call", src |-> src, field |-> field, fn |-> fn, var |-> ""]

\* The orders in which a Go range over a map with these keys can run.
RangeOrders(keys) ==
    {o \in [1..Cardinality(keys) -> keys] : \A f \in keys : \E i \in DOMAIN o : o[i] = f}

\* Name of the local variable a collection-of-struct field is built in.
MapVar == "m"
SliceVar == "aSlice"

\* Statements one field adds to a function body (lines 233-257, 304-327).
FieldStmts(fieldName, fs, src, pkg, suffix) ==
    IF ~fs.IsStructType THEN <<>>
    ELSE IF fs.IsMap
    THEN << MakeStmt(MapVar, "map", fs.MapKeyType, pkg, fs.TypeName, src, fieldName),
            RangeStmt(MapVar, "map", src, fieldName, fs.TypeName \o <<suffix>>) >>
    ELSE IF fs.IsSlice
    THEN << MakeStmt(SliceVar, "slice", <<>>, pkg, fs.TypeName, src, fieldName),
            RangeStmt(SliceVar, "slice", src, fieldName, fs.TypeName \o <<suffix>>) >>
    ELSE <<>>

\* Entry one field adds to the jen.Dict of the constructing return.
FieldAssignment(fieldName, fs, src, suffix) ==
    IF ~fs.IsStructType THEN FieldValue(src, fieldName)
    ELSE IF fs.IsMap THEN VarValue(MapVar)
    ELSE IF fs.IsSlice THEN VarValue(SliceVar)
    ELSE CallValue(fs.TypeName \o <<suffix>>, src, fieldName)

RECURSIVE BodyStmts(_, _, _, _, _)
BodyStmts(order, fieldManifest, src, pkg, suffix) ==
    IF order = <<>> THEN <<>>
    ELSE FieldStmts(Head(order), fieldManifest[Head(order)], src, pkg, suffix)
            \o BodyStmts(Tail(order), fieldManifest, src, pkg, suffix)

\* Body of <Name>FromPB when the range over fieldManifest runs in `order`.
funcBodyForFromPB(currentPBStructName, fieldManifest, order) ==
    <<GuardStmt("pb")>>
        \o BodyStmts(order, fieldManifest, "pb", "dto", "FromPB")
        \o << ReturnStmt("dto", currentPBStructName,
                [f \in DOMAIN fieldManifest |->
                    FieldAssignment(f, fieldManifest[f], "pb", "FromPB")]) >>

\* Slip: the nil guard of <Name>ToPB added after the collection blocks.
funcBodyForToPBGuardLast(currentPBStructName, fieldManifest, order) ==
    BodyStmts(order, fieldManifest, "orig", "pb", "ToPB")
        \o <<GuardStmt("orig")>>
        \o << ReturnStmt("pb", currentPBStructName,
                [f \in DOMAIN fieldManifest |->
                    FieldAssignment(f, fieldManifest[f], "orig", "ToPB")]) >>

\* Body of <Name>ToPB when the range over fieldManifest runs in `order`.
funcBodyForToPB(currentPBStructName, fieldManifest, order) ==
    <<GuardStmt("orig")>>
        \o BodyStmts(order, fieldManifest, "orig", "pb", "ToPB")
        \o << ReturnStmt("pb", currentPBStructName,
                [f \in DOMAIN fieldManifest |->
                    FieldAssignment(f, fieldManifest[f], "orig", "ToPB")]) >>

---------------------------------------------------------------------------
\* Generate, up to the root loop.

\* The pb.go file is missing, cannot be read, is no Go source, or parses to
\* one of the schemas.
ProtoGoFiles ==
    {[kind |-> k, structures |-> <<>>] : k \in {"absent", "unreadable", "invalid"}}
        \cup {[kind |-> "valid", structures |-> s] : s \in Schemas}

NoFile == [written |-> FALSE, header |-> FALSE, code |-> <<>>]

Init ==
    /\ protoGoFile \in ProtoGoFiles
    /\ pc = "CreateFolderStructure"
    /\ targetPBStructName \in Targets
    /\ err = "nil"
    /\ pbGoFile = <<>>
    /\ header = FALSE
    /\ code = <<>>
    /\ pbStructManifest = <<>>
    /\ rootIdx = 1
    /\ stack = <<>>
    /\ dtoFile = NoFile

\* Generate returns e without having written anything.
ReturnErr(e) ==
    /\ pc' = "done"
    /\ err' = e
    /\ UNCHANGED <<protoGoFile, targetPBStructName, pbGoFile, header, code,
                   pbStructManifest, rootIdx, stack, dtoFile>>

Goto(next) ==
    /\ pc' = next
    /\ UNCHANGED <<protoGoFile, targetPBStructName, err, pbGoFile, header, code,
                   pbStructManifest, rootIdx, stack, dtoFile>>

\* lines 93-96
CreateFolderStructure ==
    /\ pc = "CreateFolderStructure"
    /\ \E ok \in BOOLEAN : IF ok THEN Goto("Exists") ELSE ReturnErr("mkdir")

\* lines 99-103: the check itself can fail; otherwise it tells whether the
\* file is there.
Exists ==
    /\ pc = "Exists"
    /\ \/ ReturnErr("err checking existing pb.go file path")
       \/ IF protoGoFile.kind = "absent"
          THEN ReturnErr("pb.go file does not exist")
          ELSE Goto("ReadFile")

\* lines 106-109
ReadFile ==
    /\ pc = "ReadFile"
    /\ IF protoGoFile.kind = "unreadable"
       THEN ReturnErr("err reading pb go file")
       ELSE Goto("Parse")

\* Slip: the error of the parser dropped, the run going on with no struct.
ParseIgnoringError ==
    /\ pc = "Parse"
    /\ pbGoFile' = protoGoFile.structures
    /\ header' = TRUE
    /\ pc' = "Manifest"
    /\ UNCHANGED <<protoGoFile, targetPBStructName, err, code,
                   pbStructManifest, rootIdx, stack, dtoFile>>

\* lines 110-117: a parse error returns; otherwise the parsed structures are
\* kept and the header comment is set.
Parse ==
    /\ pc = "Parse"
    /\ IF protoGoFile.kind # "valid"
       THEN ReturnErr("err parsing pb go file")
       ELSE /\ pbGoFile' = protoGoFile.structures
            /\ header' = TRUE
            /\ pc' = "Manifest"
            /\ UNCHANGED <<protoGoFile, targetPBStructName, err, code,
                           pbStructManifest, rootIdx, stack, dtoFile>>

\* lines 121-128: one entry per name, a later struct of the same name
\* replacing an earlier one.
ManifestOf(structures) ==
    LET names == {structures[i].Name : i \in DOMAIN structures}
        last(nm) == CHOOSE i \in DOMAIN structures :
                        /\ structures[i].Name = nm
                        /\ \A j \in DOMAIN structures : structures[j].Name = nm => j <= i
    IN  [nm \in names |-> [Struct |-> structures[last(nm)], Visited |-> FALSE]]

BuildManifest ==
    /\ pc = "Manifest"
    /\ pbStructManifest' = ManifestOf(pbGoFile)
    /\ rootIdx' = 1
    /\ pc' = "Roots"
    /\ UNCHANGED <<protoGoFile, targetPBStructName, err, pbGoFile, header, code, stack, dtoFile>>

\* Slip: the Response suffix forgotten in the root loop.
IsRootRequestOnly(name, target) ==
    IF target # <<>>
    THEN name = target
    ELSE HasSuffix(name, <<"Request">>)

\* lines 133-143: TRUE when the root loop passes the struct to genDTORecursive.
IsRoot(name, target) ==
    IF target # <<>>
    THEN name = target
    ELSE HasSuffix(name, <<"Request">>) \/ HasSuffix(name, <<"Response">>)

---------------------------------------------------------------------------
\* genDTORecursive.  A frame of the call stack holds the struct being
\* generated, the position in its body, the index k of the field the loop
\* of line 167 is at, and the locals fieldManifest and dtoFields.

NewFrame(currentPBStruct) ==
    [Struct |-> currentPBStruct, at |-> "entry", k |-> 1,
     fieldManifest |-> <<>>, dtoFields |-> <<>>]

Top == stack[Len(stack)]

SetTop(frame) == [stack EXCEPT ![Len(stack)] = frame]

\* Slip: the check of line 154 missing.
AlreadyVisitedNever(manifest, name) == FALSE

\* line 154
AlreadyVisited(manifest, name) == manifest[name].Visited

\* line 200
NeedsVisit(structState) == ~structState.Visited

\* lines 177-198: the fieldState recorded for a field
FieldStateOf(field, manifest) ==
    LET t == parseFieldType(field.Type)
    IN  [TypeName |-> t.nameNoStar,
         IsStructType |-> t.nameNoStar \in DOMAIN manifest,
         IsMap |-> t.isMap,
         MapKeyType |-> t.mapKeyType,
         IsSlice |-> t.isSlice]

\* Slip: line 203 marking the calling struct instead of the field's struct.
ReturnFromVisitMarksCaller ==
    LET rest == SubSeq(stack, 1, Len(stack) - 1)
    IN  IF rest = <<>>
        THEN /\ stack' = <<>>
             /\ rootIdx' = rootIdx + 1
             /\ UNCHANGED pbStructManifest
        ELSE LET caller == rest[Len(rest)]
             IN  /\ stack' = [rest EXCEPT ![Len(rest)].k = @ + 1]
                 /\ pbStructManifest' =
                        [pbStructManifest EXCEPT ![caller.Struct.Name].Visited = TRUE]
                 /\ UNCHANGED rootIdx

\* The top call returns: to the root loop, which moves on, or to the caller
\* at line 203, which marks the struct it asked for and moves to its next
\* field.
ReturnFromVisit ==
    LET rest == SubSeq(stack, 1, Len(stack) - 1)
    IN  IF rest = <<>>
        THEN /\ stack' = <<>>
             /\ rootIdx' = rootIdx + 1
             /\ UNCHANGED pbStructManifest
        ELSE LET caller == rest[Len(rest)]
                 fieldType == parseFieldType(caller.Struct.Vars[caller.k].Type).nameNoStar
             IN  /\ stack' = [rest EXCEPT ![Len(rest)].k = @ + 1]
                 /\ pbStructManifest' = [pbStructManifest EXCEPT ![fieldType].Visited = TRUE]
                 /\ UNCHANGED rootIdx

\* lines 131-146, one iteration
RootLoop ==
    /\ pc = "Roots"
    /\ stack = <<>>
    /\ rootIdx <= Len(pbGoFile)
    /\ IF IsRoot(pbGoFile[rootIdx].Name, targetPBStructName)
       THEN /\ stack' = <<NewFrame(pbGoFile[rootIdx])>>
            /\ UNCHANGED rootIdx
       ELSE /\ rootIdx' = rootIdx + 1
            /\ UNCHANGED stack
    /\ UNCHANGED <<protoGoFile, pc, targetPBStructName, err, pbGoFile, header, code,
                   pbStructManifest, dtoFile>>

\* The other design: a struct marked visited when its visit starts.
VisitEntryMarking ==
    /\ pc = "Roots"
    /\ stack # <<>>
    /\ Top.at = "entry"
    /\ IF AlreadyVisited(pbStructManifest, Top.Struct.Name)
       THEN ReturnFromVisit
       ELSE /\ stack' = SetTop([Top EXCEPT !.at = "fields"])
            /\ pbStructManifest' =
                   [pbStructManifest EXCEPT ![Top.Struct.Name].Visited = TRUE]
            /\ UNCHANGED rootIdx
    /\ UNCHANGED <<protoGoFile, pc, targetPBStructName, err, pbGoFile, header, code, dtoFile>>

\* lines 154-157
VisitEntry ==
    /\ pc = "Roots"
    /\ stack # <<>>
    /\ Top.at = "entry"
    /\ IF AlreadyVisited(pbStructManifest, Top.Struct.Name)
       THEN ReturnFromVisit
       ELSE /\ stack' = SetTop([Top EXCEPT !.at = "fields"])
            /\ UNCHANGED <<pbStructManifest, rootIdx>>
    /\ UNCHANGED <<protoGoFile, pc, targetPBStructName, err, pbGoFile, header, code, dtoFile>>

\* The loop of line 167 of the running call has a field left.
AtField ==
    /\ pc = "Roots"
    /\ stack # <<>>
    /\ Top.at = "fields"
    /\ Top.k <= Len(Top.Struct.Vars)

\* lines 167-206, one iteration on a pb native field
SkipNativeField ==
    /\ AtField
    /\ Top.Struct.Vars[Top.k].Name \in pbNativeFields
    /\ stack' = SetTop([Top EXCEPT !.k = @ + 1])
    /\ UNCHANGED <<protoGoFile, pc, targetPBStructName, err, pbGoFile, header, code,
                   pbStructManifest, rootIdx, dtoFile>>

\* lines 167-206, one iteration on any other field: the dto field and the
\* fieldState are recorded, and a struct not yet visited is generated first.
\* A recursion that has nested deeper than any acyclic walk can is followed
\* no further: it never returns.
VisitField ==
    /\ AtField
    /\ Top.Struct.Vars[Top.k].Name \notin pbNativeFields
    /\ LET field == Top.Struct.Vars[Top.k]
           fs == FieldStateOf(field, pbStructManifest)
           recorded == [Top EXCEPT
                          !.dtoFields = Append(@, [Name |-> field.Name, Type |-> field.Type]),
                          !.fieldManifest =
                              [f \in DOMAIN @ \cup {field.Name} |->
                                  IF f = field.Name THEN fs ELSE @[f]]]
       IN  IF fs.IsStructType /\ NeedsVisit(pbStructManifest[fs.TypeName])
           THEN IF Len(stack) < MaxDepth
                THEN /\ stack' = Append(SetTop(recorded),
                                        NewFrame(pbStructManifest[fs.TypeName].Struct))
                     /\ UNCHANGED pc
                ELSE /\ stack' = SetTop(recorded)
                     /\ pc' = "unbounded recursion"
           ELSE /\ stack' = SetTop([recorded EXCEPT !.k = @ + 1])
                /\ UNCHANGED pc
    /\ UNCHANGED <<protoGoFile, targetPBStructName, err, pbGoFile, header, code,
                   pbStructManifest, rootIdx, dtoFile>>

\* lines 209-210
EmitStruct ==
    /\ pc = "Roots"
    /\ stack # <<>>
    /\ Top.at = "fields"
    /\ Top.k > Len(Top.Struct.Vars)
    /\ code' = Append(code, StructItem(Top.Struct.Name, Top.dtoFields))
    /\ pbStructManifest' = [pbStructManifest EXCEPT ![Top.Struct.Name].Visited = TRUE]
    /\ stack' = SetTop([Top EXCEPT !.at = "FromPB"])
    /\ UNCHANGED <<protoGoFile, pc, targetPBStructName, err, pbGoFile, header, rootIdx, dtoFile>>

\* line 212
genBindingFromPB ==
    /\ pc = "Roots"
    /\ stack # <<>>
    /\ Top.at = "FromPB"
    /\ \E order \in RangeOrders(DOMAIN Top.fieldManifest) :
         code' = Append(code,
                    FuncItem(Top.Struct.Name \o <<"FromPB">>, "pb",
                             funcBodyForFromPB(Top.Struct.Name, Top.fieldManifest, order)))
    /\ stack' = SetTop([Top EXCEPT !.at = "ToPB"])
    /\ UNCHANGED <<protoGoFile, pc, targetPBStructName, err, pbGoFile, header,
                   pbStructManifest, rootIdx, dtoFile>>

\* lines 213-214
genBindingToPB ==
    /\ pc = "Roots"
    /\ stack # <<>>
    /\ Top.at = "ToPB"
    /\ \E order \in RangeOrders(DOMAIN Top.fieldManifest) :
         code' = Append(code,
                    FuncItem(Top.Struct.Name \o <<"ToPB">>, "orig",
                             funcBodyForToPB(Top.Struct.Name, Top.fieldManifest, order)))
    /\ ReturnFromVisit
    /\ UNCHANGED <<protoGoFile, pc, targetPBStructName, err, pbGoFile, header, dtoFile>>

\* line 146-148: the root loop is over
RootsDone ==
    /\ pc = "Roots"
    /\ stack = <<>>
    /\ rootIdx > Len(pbGoFile)
    /\ Goto("WriteFile")

\* line 148
WriteFile ==
    /\ pc = "WriteFile"
    /\ \E ok \in BOOLEAN :
         IF ok
         THEN /\ dtoFile' = [written |-> TRUE, header |-> header, code |-> code]
              /\ err' = "nil"
         ELSE /\ dtoFile' = dtoFile
              /\ err' = "err writing dto file"
    /\ pc' = "done"
    /\ UNCHANGED <<protoGoFile, targetPBStructName, pbGoFile, header, code, pbStructManifest,
                   rootIdx, stack>>

Next ==
    \/ CreateFolderStructure
    \/ Exists
    \/ ReadFile
    \/ Parse
    \/ BuildManifest
    \/ RootLoop
    \/ VisitEntry
    \/ SkipNativeField
    \/ VisitField
    \/ EmitStruct
    \/ genBindingFromPB
    \/ genBindingToPB
    \/ RootsDone
    \/ WriteFile

Spec == Init /\ [][Next]_vars

---------------------------------------------------------------------------
\* Vocabulary of the properties, stated on the schema and on the output and
\* not through the classifier.

\* The wire format's internal bookkeeping fields.
BookkeepingNames == {"state", "sizeCache", "unknownFields"}

Registered == DOMAIN pbStructManifest

\* The registered structs that the struct-typed fields of a registered
\* struct refer to: single, sequence of struct, map of struct.
StructRefs(name) ==
    LET fields == pbStructManifest[name].Struct.Vars
    IN  {r \in Registered :
            \E k \in DOMAIN fields :
                /\ fields[k].Name \notin BookkeepingNames
                /\ fields[k].Type \in {r, PtrTo(r), SliceOf(r), MapOf(r)}}

\* The structs reachable from a set of structs through struct-typed fields.
RECURSIVE ReachableFrom(_)
ReachableFrom(names) ==
    LET more == names \cup UNION {StructRefs(n) : n \in names}
    IN  IF more = names THEN names ELSE ReachableFrom(more)

\* A reference cycle is reachable from the struct.
ReachesCycle(name) ==
    \E n \in ReachableFrom({name}) : n \in ReachableFrom(StructRefs(n))

\* The roots the driver selects.
SelectedRoots ==
    IF targetPBStructName # <<>>
    THEN {n \in Registered : n = targetPBStructName}
    ELSE {n \in Registered :
            \/ n[Len(n)] = "Request"
            \/ n[Len(n)] = "Response"}

IsStructOf(item, name) == item.kind = "struct" /\ item.name = name

IsFuncOf(item, name, suffix) == item.kind = "func" /\ item.name = name \o <<suffix>>

\* Positions of the struct declarations of a name in a sequence of items.
DeclsOf(items, name) == {i \in DOMAIN items : IsStructOf(items[i], name)}

FuncsOf(items, name, suffix) == {i \in DOMAIN items : IsFuncOf(items[i], name, suffix)}

EmittedNames(items) == {items[i].name : i \in {j \in DOMAIN items : items[j].kind = "struct"}}

\* The generated unit of a name starts at position i: the DTO type and then
\* its two conversion functions.
UnitAt(items, i, name) ==
    /\ i + 2 <= Len(items)
    /\ IsStructOf(items[i], name)
    /\ IsFuncOf(items[i + 1], name, "FromPB")
    /\ IsFuncOf(items[i + 2], name, "ToPB")

Parsed == pbStructManifest # <<>> \/ pc \in {"Roots", "WriteFile"} \/ (pc = "done" /\ header)

---------------------------------------------------------------------------
\* C1  Topological order: whenever the DTO type of a struct S is in the
\* output, every registered struct R that a struct-typed field of S refers
\* to has its whole unit (DTO type, FromPB, ToPB) at a strictly earlier
\* position.
C1_TopologicalOrder ==
    \A i \in DOMAIN code :
        code[i].kind = "struct" =>
            \A r \in StructRefs(code[i].name) :
                \E j \in DOMAIN code : j + 2 < i /\ UnitAt(code, j, r)

\* A finished run over a chain S -> R -> Q of three emitted structs.
C1_Witness ==
    /\ pc = "done" /\ dtoFile.written
    /\ \E s, r, q \in Registered :
         /\ Cardinality({s, r, q}) = 3
         /\ r \in StructRefs(s) /\ q \in StructRefs(r)
         /\ {s, r, q} \subseteq EmittedNames(dtoFile.code)

\* C2  Idempotence of visitation: the output never holds more than one DTO
\* type, one FromPB and one ToPB function for a struct name, and a struct
\* whose visit is over has exactly one of each, however often it is visited.
C2_OneUnitPerName ==
    \A n \in Registered :
        /\ Cardinality(DeclsOf(code, n)) <= 1
        /\ Cardinality(FuncsOf(code, n, "FromPB")) <= 1
        /\ Cardinality(FuncsOf(code, n, "ToPB")) <= 1
        /\ pbStructManifest[n].Visited => Cardinality(DeclsOf(code, n)) = 1
        /\ (pbStructManifest[n].Visited /\ \A d \in DOMAIN stack : stack[d].Struct.Name # n)
              => \E i \in DOMAIN code : UnitAt(code, i, n)

\* A struct already generated as somebody's field is visited again, as a
\* root or otherwise: genDTORecursive is entered for a visited struct.
C2_Witness ==
    /\ stack # <<>>
    /\ Top.at = "entry"
    /\ pbStructManifest[Top.Struct.Name].Visited
    /\ \E s \in Registered \ {Top.Struct.Name} : Top.Struct.Name \in StructRefs(s)
    /\ \E i \in DOMAIN code : UnitAt(code, i, Top.Struct.Name)

\* C3  Unresolvable root: a run that parsed the schema, was asked for a
\* struct name the schema does not have and has ended, has returned an error
\* and written no file.
C3_UnresolvableRootIsFatal ==
    (/\ pc = "done"
     /\ header
     /\ targetPBStructName # <<>>
     /\ targetPBStructName \notin Registered)
        => (err # "nil" /\ ~dtoFile.written)

\* C4  Root selection and reachability: nothing is ever emitted that is not
\* reachable from the selected roots; when the file is written, the emitted
\* structs are exactly the registered structs reachable from the selected
\* roots; with no root selected the file holds the header only; and Generate
\* adds no error of its own (it returns what writing the file returned).
C4_EmittedAreReachable ==
    /\ Parsed => EmittedNames(code) \subseteq ReachableFrom(SelectedRoots)
    /\ (pc = "done" /\ header) =>
          /\ err \in {"nil", "err writing dto file"}
          /\ dtoFile.written <=> err = "nil"
          /\ dtoFile.written =>
                /\ dtoFile.header
                /\ EmittedNames(dtoFile.code) = ReachableFrom(SelectedRoots)
                /\ SelectedRoots = {} => dtoFile.code = <<>>

\* A written file, asked for one struct by name, that leaves out a Request
\* struct of the schema; and the case of no root at all is reached as well
\* (C4_WitnessEmpty).
C4_Witness ==
    /\ pc = "done" /\ dtoFile.written
    /\ targetPBStructName # <<>>
    /\ Cardinality(EmittedNames(dtoFile.code)) >= 2
    /\ \E n \in Registered : n[Len(n)] = "Request" /\ n \notin EmittedNames(dtoFile.code)

C4_WitnessEmpty ==
    /\ pc = "done" /\ dtoFile.written
    /\ targetPBStructName = <<>>
    /\ Registered # {}
    /\ SelectedRoots = {}

\* C5  Exclusion invariant: no DTO type lists a bookkeeping field, no
\* statement of a conversion function reads or assigns one, and no visit is
\* ever started from one.
C5_BookkeepingFieldsExcluded ==
    /\ \A i \in DOMAIN code :
         /\ code[i].kind = "struct" =>
               \A k \in DOMAIN code[i].fields : code[i].fields[k].Name \notin BookkeepingNames
         /\ code[i].kind = "func" =>
               \A k \in DOMAIN code[i].body :
                   LET stmt == code[i].body[k]
                   IN  /\ stmt.op \in {"make", "range"} => stmt.field \notin BookkeepingNames
                       /\ stmt.op = "return" =>
                             \A f \in DOMAIN stmt.values :
                                 /\ f \notin BookkeepingNames
                                 /\ stmt.values[f].field \notin BookkeepingNames
    /\ \A d \in DOMAIN stack :
         /\ DOMAIN stack[d].fieldManifest \cap BookkeepingNames = {}
         /\ d < Len(stack) =>
               stack[d].Struct.Vars[stack[d].k].Name \notin BookkeepingNames

\* The whole unit of a struct is out whose schema has a bookkeeping field
\* typed with a registered struct.
C5_Witness ==
    \E i \in DOMAIN code :
        /\ code[i].kind = "struct"
        /\ UnitAt(code, i, code[i].name)
        /\ LET fields == pbStructManifest[code[i].name].Struct.Vars
           IN  /\ \E k \in DOMAIN fields :
                     /\ fields[k].Name \in BookkeepingNames
                     /\ \E r \in Registered : fields[k].Type \in {PtrTo(r), SliceOf(r)}
               /\ \E k \in DOMAIN fields : fields[k].Name \notin BookkeepingNames

\* C6  Input errors leave no output: with the pb.go file missing or not
\* parseable, the run never registers, visits or emits anything, never
\* writes the DTO file, and ends with an error.
C6_InputErrorsLeaveNoOutput ==
    protoGoFile.kind \in {"absent", "invalid"} =>
        /\ ~dtoFile.written
        /\ code = <<>>
        /\ stack = <<>>
        /\ pbStructManifest = <<>>
        /\ pc \in {"CreateFolderStructure", "Exists", "ReadFile", "Parse", "done"}
        /\ pc = "done" => err # "nil"

\* The run over a file that does not parse has ended, at the parse.
C6_Witness ==
    /\ protoGoFile.kind = "invalid"
    /\ pc = "done"
    /\ err = "err parsing pb go file"

C6_WitnessAbsent ==
    /\ protoGoFile.kind = "absent"
    /\ pc = "done"
    /\ err = "pb.go file does not exist"

---------------------------------------------------------------------------
\* What the generated functions compute, read off their statements.
\* Values: nil, a slice, a map, anything else from the source, and the
\* application of a conversion function to a value.

NilValue == [v |-> "nil"]
SliceValue(elems) == [v |-> "slice", elems |-> elems]
MapValue(pairs) == [v |-> "map", pairs |-> pairs]
ElemValue(field, k) == [v |-> "elem", of |-> field, k |-> k]
Applied(fn, value) == [v |-> "call", fn |-> fn, arg |-> value]

AbsentSource == [absent |-> TRUE, fields |-> <<>>]

\* Value of an entry of the constructing return.
EvalValue(value, env, source) ==
    CASE value.e = "field" -> source.fields[value.field]
      [] value.e = "var"   -> env[value.var]
      [] OTHER             -> Applied(value.fn, source.fields[value.field])

Bind(env, var, value) == [x \in DOMAIN env \cup {var} |-> IF x = var THEN value ELSE env[x]]

\* Runs the body from statement i on; yields the number of statements run
\* and the value returned.
RECURSIVE RunFrom(_, _, _, _)
RunFrom(body, i, env, source) ==
    LET stmt == body[i]
    IN  CASE stmt.op = "guard" ->
                IF source.absent
                THEN [ran |-> i, result |-> NilValue]
                ELSE RunFrom(body, i + 1, env, source)
          [] stmt.op = "make" ->
                RunFrom(body, i + 1,
                        Bind(env, stmt.var,
                             IF stmt.coll = "map" THEN MapValue(<<>>) ELSE SliceValue(<<>>)),
                        source)
          [] stmt.op = "range" ->
                LET over == source.fields[stmt.field]
                IN  IF over.v = "nil" THEN RunFrom(body, i + 1, env, source)
                    ELSE IF stmt.coll = "map"
                    THEN RunFrom(body, i + 1,
                            Bind(env, stmt.var,
                                 MapValue([key \in DOMAIN env[stmt.var].pairs \cup DOMAIN over.pairs |->
                                             IF key \in DOMAIN over.pairs
                                             THEN Applied(stmt.fn, over.pairs[key])
                                             ELSE env[stmt.var].pairs[key]])),
                            source)
                    ELSE RunFrom(body, i + 1,
                            Bind(env, stmt.var,
                                 SliceValue(env[stmt.var].elems
                                    \o [k \in DOMAIN over.elems |-> Applied(stmt.fn, over.elems[k])])),
                            source)
          [] OTHER ->
                [ran |-> i,
                 result |-> [v |-> "struct", pkg |-> stmt.pkg, type |-> stmt.type,
                             fields |-> [f \in DOMAIN stmt.values |->
                                            EvalValue(stmt.values[f], env, source)]]]

RunBody(body, source) == RunFrom(body, 1, <<>>, source)

\* Go rejects a second := of the same variable in one block.
Compiles(body) ==
    \A i, j \in DOMAIN body :
        (body[i].op = "make" /\ body[j].op = "make" /\ body[i].var = body[j].var) => i = j

\* The struct a conversion function belongs to.
OwnerOf(item) == SubSeq(item.name, 1, Len(item.name) - 1)

\* The sequence-of-struct fields of a registered struct.
SeqOfStructFields(name) ==
    LET fields == pbStructManifest[name].Struct.Vars
    IN  {k \in DOMAIN fields :
            /\ fields[k].Name \notin BookkeepingNames
            /\ \E r \in Registered : fields[k].Type = SliceOf(r)}

\* Sources to run a conversion function of a struct on: every field that is
\* a sequence is absent, empty, or has one or two elements.
SourcesOf(name) ==
    LET fields == pbStructManifest[name].Struct.Vars
        kept == {k \in DOMAIN fields : fields[k].Name \notin BookkeepingNames}
        valuesOf(k) ==
            IF fieldIsASlice(fields[k].Type)
            THEN {NilValue} \cup
                 {SliceValue([e \in 1..n |-> ElemValue(fields[k].Name, e)]) : n \in 0..2}
            ELSE IF fieldIsAMap(fields[k].Type)
            THEN {NilValue, MapValue(<<>>),
                  MapValue([key \in {"k1"} |-> ElemValue(fields[k].Name, 1)])}
            ELSE {ElemValue(fields[k].Name, 0)}
        names == {fields[k].Name : k \in kept}
        indexOf(f) == CHOOSE k \in kept : fields[k].Name = f
    IN  { [absent |-> FALSE, fields |-> fs] :
            fs \in {fs \in [names -> UNION {valuesOf(k) : k \in kept}] :
                       \A f \in names : fs[f] \in valuesOf(indexOf(f))} }

\* C7  Null propagation: the first statement of every conversion function
\* is the absence guard on its own parameter, the only guard of the body;
\* everything that builds a collection and the constructing return come
\* after it; run on an absent source the function returns absent having run
\* that one statement.
C7_GuardComesFirst ==
    \A i \in DOMAIN code :
        code[i].kind = "func" =>
            LET body == code[i].body
            IN  /\ code[i].param = (IF code[i].name[Len(code[i].name)] = "FromPB"
                                    THEN "pb" ELSE "orig")
                /\ body[1] = [op |-> "guard", src |-> code[i].param]
                /\ \A k \in 2..Len(body) : body[k].op \in {"make", "range", "return"}
                /\ body[Len(body)].op = "return"
                /\ RunBody(body, AbsentSource) = [ran |-> 1, result |-> NilValue]

\* Both conversion functions of a struct with a map-of-struct and a
\* sequence-of-struct field are out.
C7_Witness ==
    \E i \in DOMAIN code :
        /\ code[i].kind = "struct"
        /\ UnitAt(code, i, code[i].name)
        /\ \A j \in {i + 1, i + 2} :
              /\ \E k \in DOMAIN code[j].body :
                    code[j].body[k].op = "make" /\ code[j].body[k].coll = "map"
              /\ \E k \in DOMAIN code[j].body :
                    code[j].body[k].op = "make" /\ code[j].body[k].coll = "slice"

\* C8  Collection allocation: every conversion function is valid Go and,
\* for each sequence-of-struct field of its struct and every source, gives
\* the target field a new sequence holding the same-direction conversion of
\* every element of that field of the source, in order; an empty or absent
\* source sequence gives an allocated sequence of length 0.
C8_SequenceFieldsConverted ==
    \A i \in DOMAIN code :
        code[i].kind = "func" =>
            LET owner == OwnerOf(code[i])
                fields == pbStructManifest[owner].Struct.Vars
                fn(k) == SubSeq(fields[k].Type, 4, Len(fields[k].Type))
                            \o <<code[i].name[Len(code[i].name)]>>
            IN  \A k \in SeqOfStructFields(owner) :
                    /\ Compiles(code[i].body)
                    /\ \A source \in SourcesOf(owner) :
                          LET given == source.fields[fields[k].Name]
                              elems == IF given.v = "nil" THEN <<>> ELSE given.elems
                          IN  RunBody(code[i].body, source).result.fields[fields[k].Name]
                                = SliceValue([e \in DOMAIN elems |-> Applied(fn(k), elems[e])])

---------------------------------------------------------------------------
VisitedFlag(n) == n \in Registered /\ pbStructManifest[n].Visited

\* C9, as claimed: a struct is never marked visited while its DTO type or
\* one of its two conversion functions is still missing from the output.
C9_VisitedOnlyAfterWholeUnit ==
    \A n \in Registered :
        pbStructManifest[n].Visited => \E i \in DOMAIN code : UnitAt(code, i, n)

\* The struct has its DTO type in the output, and its conversion functions
\* too unless its own visit is right now between line 210 and its return:
\* then the output ends with the DTO type, or with the DTO type and FromPB.
WholeUnitOrInBindings(n) ==
    \/ \E i \in DOMAIN code : UnitAt(code, i, n)
    \/ /\ stack # <<>>
       /\ Top.Struct.Name = n
       /\ \/ Top.at = "FromPB" /\ IsStructOf(code[Len(code)], n)
          \/ /\ Top.at = "ToPB"
             /\ Len(code) >= 2
             /\ IsStructOf(code[Len(code) - 1], n)
             /\ IsFuncOf(code[Len(code)], n, "FromPB")

\* C9, amended: a visited flag never goes back to false (so it turns true at
\* most once), and when it is true the struct's DTO type is in the output;
\* the two conversion functions are appended right after the flag is set,
\* before the struct's visit returns and before anything else is emitted.
C9_VisitedFlagDiscipline ==
    /\ [](\A n \in Registered : pbStructManifest[n].Visited => WholeUnitOrInBindings(n))
    /\ [][\A n \in Registered : pbStructManifest[n].Visited => VisitedFlag(n)']_vars

\* A struct is marked visited, its DTO type is the last item of the output,
\* and neither conversion function is out yet.
C9_Witness ==
    /\ stack # <<>>
    /\ Top.at = "FromPB"
    /\ pbStructManifest[Top.Struct.Name].Visited
    /\ IsStructOf(code[Len(code)], Top.Struct.Name)
    /\ FuncsOf(code, Top.Struct.Name, "FromPB") = {}
    /\ FuncsOf(code, Top.Struct.Name, "ToPB") = {}

OnStack(n) == \E d \in DOMAIN stack : stack[d].Struct.Name = n

\* How far the run is: the position in Generate, the root the loop is at,
\* and for every depth of the call stack how far that call is (0 when the
\* stack is not that deep).  Compared left to right.
PcRank ==
    CASE pc = "CreateFolderStructure" -> 0
      [] pc = "Exists" -> 1
      [] pc = "ReadFile" -> 2
      [] pc = "Parse" -> 3
      [] pc = "Manifest" -> 4
      [] pc = "Roots" -> 5
      [] pc = "WriteFile" -> 6
      [] pc = "unbounded recursion" -> 6
      [] OTHER -> 7

FrameProgress(frame) ==
    CASE frame.at = "entry" -> 1
      [] frame.at = "fields" -> 1 + frame.k
      [] frame.at = "FromPB" -> 3 + Len(frame.Struct.Vars)
      [] OTHER -> 4 + Len(frame.Struct.Vars)

Progress(pcRank, root, frames) ==
    <<pcRank, root>> \o
        [d \in 1..MaxDepth |-> IF d <= Len(frames) THEN FrameProgress(frames[d]) ELSE 0]

Before(a, b) ==
    \E i \in DOMAIN a : a[i] < b[i] /\ \A j \in 1..(i - 1) : a[j] = b[j]

\* Something is left to run.
CanStep ==
    \/ AtField
    \/ ENABLED (CreateFolderStructure \/ Exists \/ ReadFile \/ Parse \/ BuildManifest
                \/ RootLoop \/ VisitEntry \/ EmitStruct \/ genBindingFromPB
                \/ genBindingToPB \/ RootsDone \/ WriteFile)

\* C10  Termination of the walk.  No struct that reaches a reference cycle
\* is ever marked visited or emitted, and the visit of such a struct never
\* returns (its frame stays on the stack for ever), so a run that selects
\* one as a root never gets to write the file.  Every other visit returns:
\* each step takes the run further and the run stops only when Generate has
\* returned or the recursion is unbounded, and then every frame left on the
\* stack is the visit of a struct that reaches a cycle.
C10_WalkTerminatesIffAcyclic ==
    /\ [](\A n \in Registered :
            ReachesCycle(n) => ~pbStructManifest[n].Visited /\ n \notin EmittedNames(code))
    /\ [][\A d \in DOMAIN stack :
            (stack[d].at # "entry" /\ ReachesCycle(stack[d].Struct.Name)) =>
                (d \in DOMAIN stack' /\ stack'[d].Struct = stack[d].Struct)]_vars
    /\ []((pc \in {"WriteFile", "done"} /\ header) =>
            \A r \in SelectedRoots : ~ReachesCycle(r))
    /\ [](pc = "unbounded recursion" =>
            \A d \in DOMAIN stack : ReachesCycle(stack[d].Struct.Name))
    /\ [][Before(Progress(PcRank, rootIdx, stack), Progress(PcRank, rootIdx, stack)')]_vars
    /\ [](pc \in {"done", "unbounded recursion"} \/ CanStep)

\* The recursion through two structs that refer to each other has become
\* unbounded, after another root was generated, and neither struct of the
\* cycle is emitted.
C10_Witness ==
    /\ pc = "unbounded recursion"
    /\ code # <<>>
    /\ \E a, b \in Registered :
         /\ a # b
         /\ b \in StructRefs(a) /\ a \in StructRefs(b)
         /\ OnStack(a) /\ OnStack(b)
         /\ {a, b} \cap EmittedNames(code) = {}

---------------------------------------------------------------------------
\* Position of a field in the declaration of a registered struct.
FieldIndex(owner, fieldName) ==
    LET fields == pbStructManifest[owner].Struct.Vars
    IN  CHOOSE k \in DOMAIN fields : fields[k].Name = fieldName

\* C11  Deterministic, source-ordered synthesis: inside every conversion
\* function the collection-building blocks stand in the order in which
\* their fields are declared in the struct, so that the output of a run is
\* a function of the schema and the root selection alone.
C11_BlocksInSourceOrder ==
    \A i \in DOMAIN code :
        code[i].kind = "func" =>
            \A k1, k2 \in DOMAIN code[i].body :
                (/\ k1 < k2
                 /\ code[i].body[k1].op = "make"
                 /\ code[i].body[k2].op = "make") =>
                    FieldIndex(OwnerOf(code[i]), code[i].body[k1].field)
                        < FieldIndex(OwnerOf(code[i]), code[i].body[k2].field)

---------------------------------------------------------------------------
\* Files in which two struct definitions carry the same name: a reference
\* graph of fewer than MaxStructs structs with a second definition of one
\* of its names put in at any place.  The second definition has the fields
\* every generated pb struct has.
SecondDefinition(name) ==
    [Name |-> name,
     Vars |-> << [Name |-> "sizeCache", Type |-> <<"int32">>],
                 [Name |-> "Label", Type |-> <<"string">>] >>]

InsertAt(s, p, x) == SubSeq(s, 1, p) \o <<x>> \o SubSeq(s, p + 1, Len(s))

DupSchemas ==
    UNION { { InsertAt(s, p, SecondDefinition(s[d].Name)) : d \in DOMAIN s, p \in 0..Len(s) }
            : s \in {g \in GraphSchemas : Len(g) >= 1 /\ Len(g) < MaxStructs} }

InitDup ==
    /\ protoGoFile \in {[kind |-> "valid", structures |-> s] : s \in DupSchemas}
    /\ pc = "CreateFolderStructure"
    /\ targetPBStructName \in Targets
    /\ err = "nil"
    /\ pbGoFile = <<>>
    /\ header = FALSE
    /\ code = <<>>
    /\ pbStructManifest = <<>>
    /\ rootIdx = 1
    /\ stack = <<>>
    /\ dtoFile = NoFile

\* The runs over a file with a duplicate struct name.
SpecDup == InitDup /\ [][Next]_vars

HasDuplicateNames(structures) ==
    \E i, j \in DOMAIN structures : i # j /\ structures[i].Name = structures[j].Name

\* C12  Duplicate struct names: once the parsed schema holds two structs of
\* one name, nothing is ever registered, visited, emitted or written, and
\* the run ends with an error.
C12_DuplicateNamesAreFatal ==
    HasDuplicateNames(pbGoFile) =>
        /\ pbStructManifest = <<>>
        /\ stack = <<>>
        /\ code = <<>>
        /\ ~dtoFile.written
        /\ pc \in {"Manifest", "done"}
        /\ pc = "done" => err # "nil"

---------------------------------------------------------------------------
\* C13  Distinct intermediate collections: in every conversion function no
\* intermediate variable is declared twice, and a field that is assigned an
\* intermediate variable is assigned one that is declared for that field,
\* filled from that field of the source, and used for no other field.
C13_DistinctIntermediates ==
    \A i \in DOMAIN code :
        code[i].kind = "func" =>
            LET body == code[i].body
                values == body[Len(body)].values
            IN  /\ Compiles(body)
                /\ \A f \in DOMAIN values :
                      values[f].e = "var" =>
                          /\ \A k \in DOMAIN body :
                                (/\ body[k].op \in {"make", "range"}
                                 /\ body[k].var = values[f].var) => body[k].field = f
                          /\ \E k \in DOMAIN body :
                                body[k].op = "make" /\ body[k].var = values[f].var
                          /\ \A g \in DOMAIN values \ {f} :
                                values[g].e = "var" => values[g].var # values[f].var

====
